---- MODULE Spec2Model ----
(***************************************************************************)
(* Form-submission backend (DevWithHarsh/dynamicForm).                     *)
(*                                                                         *)
(* Three entry points act on one FormSubmission collection:                *)
(*   - the standalone express server        (src/server/server.js)         *)
(*   - the serverless forms handler         (src/api/forms.js, 1-216)      *)
(*   - the serverless CSV-import handler    (src/api/forms.js, 217-314)    *)
(* The two serverless handlers share the global.mongoose connection cache. *)
(*                                                                         *)
(* JSON values are tagged records; a JS object is a function over AllKeys  *)
(* whose absent keys map to Undef.                                         *)
(***************************************************************************)
EXTENDS Integers, Sequences, FiniteSets, TLC

(* ------------------------------ bounds -------------------------------- *)

\* steps that change the collection, advance the clock or suspend a handler
MaxEvents == 3
\* rows in one csvData array
MaxRows == 2

(* ---------------------------- JSON values ----------------------------- *)

Undef == [t |-> "undefined"]
Str(s) == [t |-> "string", v |-> s]
Num(n) == [t |-> "number", v |-> n]
Date(n) == [t |-> "date", v |-> n]
Obj(o) == [t |-> "object", v |-> o]
Arr(a) == [t |-> "array", v |-> a]

\* the paths the schema declares that the model follows, and updatedAt, which
\* `timestamps: true` maintains (createdAt, set once at creation, is left out)
Keys == {"name", "source", "csvData", "submittedAt"}
AllKeys == Keys \cup {"updatedAt"}

EmptyObj == [k \in AllKeys |-> Undef]
With(o, k, v) == [o EXCEPT ![k] = v]
IsDef(v) == v.t # "undefined"
Names(o) == {k \in AllKeys : IsDef(o[k])}

\* JS truthiness of a JSON value
Truthy(v) ==
  CASE v.t = "undefined" -> FALSE
    [] v.t = "string" -> v.v # ""
    [] v.t = "number" -> v.v # 0
    [] OTHER -> TRUE

IsArray(v) == v.t = "array"

(* ------------------------------ schema -------------------------------- *)

SourceEnum == {"form", "csv"}

\* mongoose's cast of a value to the declared type of path k
CastPath(k, v) ==
  CASE k \in {"name", "source"} /\ v.t = "number" -> Str(ToString(v.v))
    [] k = "submittedAt" /\ v.t = "number" -> Date(v.v)
    [] OTHER -> v

\* whether v casts to, and validates against, the declared type of path k
PathValid(k, v) ==
  CASE ~IsDef(v) -> TRUE
    [] k = "name" -> v.t \in {"string", "number"}
    [] k = "source" -> v.t = "string" /\ v.v \in SourceEnum
    [] k = "submittedAt" -> v.t \in {"number", "date"}
    [] OTHER -> TRUE

ObjValid(o) == \A k \in Keys : PathValid(k, o[k])

\* new FormSubmission(o) under formSubmissionSchema, created at time t
NewDocument(o, t) ==
  [k \in AllKeys |->
     CASE k = "updatedAt" -> Date(t)
       [] k = "submittedAt" /\ ~IsDef(o[k]) -> Date(t)
       [] k = "source" /\ ~IsDef(o[k]) -> Str("form")
       [] OTHER -> CastPath(k, o[k])]

\* a document of the fallback model new Schema({}, {strict: false, timestamps: true})
LooseDocument(o, t) ==
  [k \in AllKeys |->
     IF k = "updatedAt" THEN Date(t) ELSE o[k]]

(* --------------------------- request inputs --------------------------- *)

\* an id parameter: missing, not castable to ObjectId, or a well-formed id
NoId == [k |-> "none"]
MalformedId == [k |-> "malformed"]
Oid(n) == [k |-> "oid", n |-> n]

R1 == With(EmptyObj, "name", Str("a"))
R2 == [EmptyObj EXCEPT !["name"] = Num(5), !["source"] = Str("form"),
                       !["csvData"] = Str("x"), !["submittedAt"] = Num(0)]
\* the rows a client sends, in order: csvData arrays are its prefixes
RowAt(i) == IF i % 2 = 1 THEN R2 ELSE R1
RowArrays == {[i \in 1..n |-> RowAt(i)] : n \in 0..MaxRows}

CsvScalarBody == With(EmptyObj, "csvData", Str("x"))
CsvArrayBodies == {With(EmptyObj, "csvData", Arr(a)) : a \in RowArrays}

\* bodies of POST /forms
PostBodies == {With(EmptyObj, "name", Num(5)), CsvScalarBody} \cup CsvArrayBodies

\* bodies of POST /forms/csv
CsvBodies == {EmptyObj, CsvScalarBody} \cup CsvArrayBodies

\* bodies of PUT /forms/{id}
PutBodies ==
  {With(EmptyObj, "name", Num(5)), With(EmptyObj, "source", Str("bogus")),
   With(EmptyObj, "submittedAt", Num(0)), With(EmptyObj, "csvData", Str("x"))}

(* ------------------------------- state -------------------------------- *)

VARIABLES
  deploy,    \* which deployment runs: the express server or the serverless functions
  store,     \* the FormSubmission collection: ObjectId -> document
  nextId,    \* the next ObjectId the driver generates
  now,       \* Date.now()
  mode,      \* process.env.NODE_ENV
  cached,    \* global.mongoose: [conn, promise]
  attempts,  \* the mongoose.connect calls started so far: attempt -> state
  inflight,  \* handler invocations suspended at an await: a bag of frames
  events,    \* collection changes, clock ticks and suspensions so far
  resp       \* the response written by the last step, NoResp if it wrote none

vars == <<deploy, store, nextId, now, mode, cached, attempts, inflight, events, resp>>

NoData == [total |-> 0, form |-> 0, csv |-> 0]
\* h: the entry point; route: the request; op: the repository call the handler
\* reached ("none" when it answered before any, "connect" when connectDB threw)
NoResp == [h |-> "none", route |-> "none", op |-> "none", status |-> 0,
           error |-> "none", id |-> NoId, body |-> EmptyObj, data |-> NoData]
Response(h, route, op, status, error, id, body) ==
  [h |-> h, route |-> route, op |-> op, status |-> status, error |-> error,
   id |-> id, body |-> body, data |-> NoData]

(* -------------------------- repository calls -------------------------- *)

\* the result of one await on the model: what it returned or threw, and the
\* collection it leaves
Result(kind, st, nid) == [kind |-> kind, store |-> st, nextId |-> nid]

Insert(st, nid, doc) ==
  [i \in DOMAIN st \cup {nid} |-> IF i = nid THEN doc ELSE st[i]]

\* FormSubmission.findById(id)
findById(st, nid, id) ==
  IF id.k # "oid" THEN Result("throw", st, nid)
  ELSE IF id.n \in DOMAIN st THEN Result("doc", st, nid)
  ELSE Result("null", st, nid)

\* new FormSubmission({...body, source: 'form'}).save()
saveForm(st, nid, t, body) ==
  LET o == With(body, "source", Str("form")) IN
  IF ObjValid(o) THEN Result("doc", Insert(st, nid, NewDocument(o, t)), nid + 1)
  ELSE Result("throw", st, nid)

\* the row mapping with the spread written last, so that the row's own keys win
mapRowSpreadLast(row) ==
  [k \in AllKeys |->
     IF IsDef(row[k]) THEN row[k]
     ELSE IF k = "source" THEN Str("csv")
     ELSE IF k = "csvData" THEN Obj(row)
     ELSE row[k]]

\* the row mapping without its csvData: row entry
mapRowNoCsvData(row) == [row EXCEPT !["source"] = Str("csv")]

\* csvData.map(row => ({...row, source: 'csv', csvData: row}))
mapRow(row) == [row EXCEPT !["source"] = Str("csv"), !["csvData"] = Obj(row)]

\* csvData.map(row => ({...row, source: 'csv', csvData: row, submittedAt: new Date()}))
mapRowStamped(row, t) == With(mapRow(row), "submittedAt", Date(t))

InsertAll(st, nid, docs) ==
  [i \in DOMAIN st \cup (nid..(nid + Len(docs) - 1)) |->
     IF i \in DOMAIN st THEN st[i] ELSE docs[i - nid + 1]]

\* FormSubmission.insertMany(submissions) under formSubmissionSchema: every
\* document is validated first and none is sent if one fails
insertMany(st, nid, t, subs) ==
  IF \A i \in 1..Len(subs) : ObjValid(subs[i])
  THEN Result("docs",
              InsertAll(st, nid, [i \in 1..Len(subs) |-> NewDocument(subs[i], t)]),
              nid + Len(subs))
  ELSE Result("throw", st, nid)

\* insertMany under the fallback schema of the CSV-import handler
insertManyLoose(st, nid, t, subs) ==
  Result("docs",
         InsertAll(st, nid, [i \in 1..Len(subs) |-> LooseDocument(subs[i], t)]),
         nid + Len(subs))

\* the update applied as a replacement of the document ({overwrite: true})
applyUpdateReplace(doc, body, t) ==
  [k \in AllKeys |-> IF k = "updatedAt" THEN Date(t) ELSE CastPath(k, body[k])]

\* the document after $set of the body's paths; timestamps set updatedAt
applyUpdate(doc, body, t) ==
  [k \in AllKeys |->
     CASE k = "updatedAt" -> Date(t)
       [] k \in Keys /\ IsDef(body[k]) -> CastPath(k, body[k])
       [] OTHER -> doc[k]]

\* FormSubmission.findByIdAndUpdate(id, body, {new: true, runValidators: true})
findByIdAndUpdate(st, nid, t, id, body) ==
  IF id.k # "oid" \/ ~ObjValid(body) THEN Result("throw", st, nid)
  ELSE IF id.n \notin DOMAIN st THEN Result("null", st, nid)
  ELSE Result("doc", [st EXCEPT ![id.n] = applyUpdate(st[id.n], body, t)], nid)

\* FormSubmission.findByIdAndDelete(id)
findByIdAndDelete(st, nid, id) ==
  IF id.k # "oid" THEN Result("throw", st, nid)
  ELSE IF id.n \notin DOMAIN st THEN Result("null", st, nid)
  ELSE Result("doc", [i \in DOMAIN st \ {id.n} |-> st[i]], nid)

\* FormSubmission.countDocuments(filter) for filter {} ("all") or {source: s}
countDocuments(st, src) ==
  Cardinality({i \in DOMAIN st : src = "all" \/ st[i]["source"] = Str(src)})

\* res.status(...) of a handler after a repository call that returns a document
\* or null, or throws into the handler's catch
StatusOf(kind, ok) ==
  CASE kind = "throw" -> 500
    [] kind = "null" -> 404
    [] OTHER -> ok

(* --------------------------- suspended frames -------------------------- *)

\* an invocation suspended at an await: pc names the await, awaits the
\* connection attempt it waits for, total and form the counts it holds. The
\* request of an invocation suspended in connectDB is read only after the
\* await, and FnResume draws it there.
Frame(h, pc, awaits, total, form) ==
  [h |-> h, pc |-> pc, awaits |-> awaits, total |-> total, form |-> form]

EmptyBag == [f \in {} |-> 0]

RECURSIVE SumOver(_, _)
SumOver(b, S) ==
  IF S = {} THEN 0
  ELSE LET x == CHOOSE y \in S : TRUE IN b[x] + SumOver(b, S \ {x})

BagSize(b) == SumOver(b, DOMAIN b)

Suspend(b, f) ==
  [x \in DOMAIN b \cup {f} |->
     IF x \in DOMAIN b THEN b[x] + (IF x = f THEN 1 ELSE 0) ELSE 1]

Drop(b, f) ==
  [x \in {y \in DOMAIN b : y # f \/ b[y] > 1} |-> IF x = f THEN b[x] - 1 ELSE b[x]]

CanSuspend == events < MaxEvents

\* the event loop is between two steps of the given deployment: the last
\* response, if any, has left
Ready(d) == deploy = d /\ resp = NoResp

(* ------------------------- the express server -------------------------- *)

\* the error field of the route handlers' catch blocks: error.message
serverError(status) == IF status = 500 THEN "detail" ELSE "none"

IssuedIds == {MalformedId} \cup {Oid(n) : n \in 0..(nextId - 1)}

\* the repository call's effect reaches the collection
Commit(r) ==
  /\ store' = r.store
  /\ nextId' = r.nextId
  /\ events' = IF r.store # store THEN events + 1 ELSE events
  /\ events' <= MaxEvents

\* what a route handler leaves when it has answered
SrvDone(route, op, r, ok, id, body) ==
  /\ Commit(r)
  /\ resp' = LET st == StatusOf(r.kind, ok) IN
             Response("server", route, op, st, serverError(st), id, body)
  /\ UNCHANGED <<deploy, now, mode, cached, attempts, inflight>>

\* app.get('/api/forms/:id')
SrvGetForm ==
  /\ Ready("server")
  /\ \E id \in IssuedIds :
       SrvDone("GET /forms/{id}", "get", findById(store, nextId, id), 200, id, EmptyObj)

\* app.post('/api/forms')
SrvPostForm ==
  /\ Ready("server")
  /\ \E body \in PostBodies :
       SrvDone("POST /forms", "create", saveForm(store, nextId, now, body), 201,
               NoId, body)

\* app.post('/api/forms/csv')
SrvPostCsv ==
  /\ Ready("server")
  /\ \E body \in CsvBodies :
       LET csvData == body["csvData"] IN
       IF ~Truthy(csvData) \/ ~IsArray(csvData)
       THEN /\ resp' = Response("server", "POST /forms/csv", "none", 400, "none",
                                NoId, body)
            /\ UNCHANGED <<deploy, store, nextId, now, mode, cached, attempts,
                           inflight, events>>
       ELSE SrvDone("POST /forms/csv", "bulk",
                    insertMany(store, nextId, now,
                               [i \in 1..Len(csvData.v) |-> mapRow(csvData.v[i])]),
                    201, NoId, body)

\* app.put('/api/forms/:id')
SrvPutForm ==
  /\ Ready("server")
  /\ \E id \in IssuedIds, body \in PutBodies :
       SrvDone("PUT /forms/{id}", "update",
               findByIdAndUpdate(store, nextId, now, id, body), 200, id, body)

\* app.delete('/api/forms/:id')
SrvDeleteForm ==
  /\ Ready("server")
  /\ \E id \in IssuedIds :
       SrvDone("DELETE /forms/{id}", "delete",
               findByIdAndDelete(store, nextId, id), 200, id, EmptyObj)

\* app.get('/api/analytics'): the request arrives and the first count is sent
SrvAnalytics ==
  /\ Ready("server")
  /\ CanSuspend
  /\ inflight' = Suspend(inflight,
                         Frame("server", "total", 0, 0, 0))
  /\ events' = events + 1
  /\ resp' = NoResp
  /\ UNCHANGED <<deploy, store, nextId, now, mode, cached, attempts>>

\* await FormSubmission.countDocuments()
AnalyticsTotal(f) ==
  /\ Ready("server")
  /\ f.pc = "total"
  /\ inflight' = Suspend(Drop(inflight, f),
                         [f EXCEPT !.pc = "form", !.total = countDocuments(store, "all")])
  /\ resp' = NoResp
  /\ UNCHANGED <<deploy, store, nextId, now, mode, cached, attempts, events>>

\* await FormSubmission.countDocuments({ source: 'form' })
AnalyticsForm(f) ==
  /\ Ready("server")
  /\ f.pc = "form"
  /\ inflight' = Suspend(Drop(inflight, f),
                         [f EXCEPT !.pc = "csv", !.form = countDocuments(store, "form")])
  /\ resp' = NoResp
  /\ UNCHANGED <<deploy, store, nextId, now, mode, cached, attempts, events>>

\* await FormSubmission.countDocuments({ source: 'csv' }); the aggregate and the
\* recent-submissions query that follow only read, and the response is written
AnalyticsCsv(f) ==
  /\ Ready("server")
  /\ f.pc = "csv"
  /\ inflight' = Drop(inflight, f)
  /\ resp' = [Response("server", "GET /analytics", "analytics", 200, "none",
                       NoId, EmptyObj)
                EXCEPT !.data = [total |-> f.total, form |-> f.form,
                                 csv |-> countDocuments(store, "csv")]]
  /\ UNCHANGED <<deploy, store, nextId, now, mode, cached, attempts, events>>

\* the wall clock advances
Tick ==
  /\ resp = NoResp
  /\ events < MaxEvents
  /\ now' = now + 1
  /\ events' = events + 1
  /\ resp' = NoResp
  /\ UNCHANGED <<deploy, store, nextId, mode, cached, attempts, inflight>>

(* ---------------------- the serverless handlers ------------------------ *)

Request(method, id, body) == [method |-> method, id |-> id, body |-> body]

\* requests to the forms handler: method, query.id, body
FormsRequests ==
  {Request("GET", id, EmptyObj) : id \in {NoId} \cup IssuedIds}
    \cup {Request("POST", NoId, b) : b \in PostBodies}
    \cup {Request("PUT", id, b) : id \in IssuedIds, b \in PutBodies}
    \cup {Request("PUT", NoId, With(EmptyObj, "name", Num(5)))}
    \cup {Request("DELETE", id, EmptyObj) : id \in {NoId} \cup IssuedIds}
    \cup {Request("OPTIONS", NoId, EmptyObj), Request("PATCH", NoId, EmptyObj)}

\* requests to the CSV-import handler
CsvRequests ==
  {Request("POST", NoId, b) : b \in CsvBodies}
    \cup {Request("GET", NoId, EmptyObj), Request("OPTIONS", NoId, EmptyObj)}

Requests(h) == IF h = "forms" THEN FormsRequests ELSE CsvRequests

Route(h, req) ==
  CASE h = "csv" /\ req.method = "POST" -> "POST /forms/csv"
    [] h = "forms" /\ req.method = "GET" ->
         IF req.id.k = "none" THEN "GET /forms" ELSE "GET /forms/{id}"
    [] h = "forms" /\ req.method = "POST" -> "POST /forms"
    [] h = "forms" /\ req.method = "PUT" -> "PUT /forms/{id}"
    [] h = "forms" /\ req.method = "DELETE" -> "DELETE /forms/{id}"
    [] OTHER -> req.method

\* the error field of the forms handler's catch
formsError(status, env) ==
  IF status # 500 THEN "none"
  ELSE IF env = "development" THEN "detail" ELSE "generic"

\* the error field of the CSV-import handler's catch: error.message
csvError(status) == IF status = 500 THEN "detail" ELSE "none"

Outcome(status, op, r) == [status |-> status, op |-> op, r |-> r]

\* the forms handler's switch (method), entered once connectDB has returned
formsSwitch(st, nid, t, req) ==
  LET same == Result("none", st, nid) IN
  CASE req.method = "GET" ->
         IF req.id.k # "none"
         THEN LET r == findById(st, nid, req.id) IN Outcome(StatusOf(r.kind, 200), "get", r)
         ELSE Outcome(200, "list", same)
    [] req.method = "POST" ->
         LET csvData == req.body["csvData"] IN
         IF Truthy(csvData)
         THEN IF IsArray(csvData)
              THEN LET r == insertMany(st, nid, t,
                              [i \in 1..Len(csvData.v) |-> mapRow(csvData.v[i])])
                   IN Outcome(StatusOf(r.kind, 201), "bulk", r)
              ELSE Outcome(500, "none", same)
         ELSE LET r == saveForm(st, nid, t, req.body)
              IN Outcome(StatusOf(r.kind, 201), "create", r)
    [] req.method = "PUT" ->
         IF req.id.k = "none" THEN Outcome(400, "none", same)
         ELSE LET r == findByIdAndUpdate(st, nid, t, req.id, req.body)
              IN Outcome(StatusOf(r.kind, 200), "update", r)
    [] req.method = "DELETE" ->
         IF req.id.k = "none" THEN Outcome(400, "none", same)
         ELSE LET r == findByIdAndDelete(st, nid, req.id)
              IN Outcome(StatusOf(r.kind, 200), "delete", r)
    [] OTHER -> Outcome(405, "none", same)

\* the CSV-import handler after connectDB; registered: whether the
\* FormSubmission model was already compiled in this process
csvImport(st, nid, t, req, registered) ==
  LET csvData == req.body["csvData"] IN
  IF ~Truthy(csvData) \/ ~IsArray(csvData)
  THEN Outcome(400, "none", Result("none", st, nid))
  ELSE LET subs == [i \in 1..Len(csvData.v) |-> mapRowStamped(csvData.v[i], t)]
           r == IF registered THEN insertMany(st, nid, t, subs)
                ELSE insertManyLoose(st, nid, t, subs)
       IN Outcome(StatusOf(r.kind, 201), "bulk", r)

\* connectDB without the cached.promise test
needsConnectAlways(c, att) == TRUE

\* connectDB that forgets a rejected promise
needsConnectRetry(c, att) == c.promise = 0 \/ att[c.promise] = "rejected"

\* connectDB: whether this call starts mongoose.connect (cached.conn is null)
needsConnect(c, att) == c.promise = 0

\* the handler writes its response
FnAnswer(h, req, status, op) ==
  resp' = Response(h, Route(h, req), op, status,
                   IF h = "forms" THEN formsError(status, mode) ELSE csvError(status),
                   req.id, req.body)

\* the handler body runs on the connection and answers
FnBody(h, req, registered) ==
  LET out == IF h = "forms" THEN formsSwitch(store, nextId, now, req)
             ELSE csvImport(store, nextId, now, req, registered)
  IN /\ Commit(out.r)
     /\ FnAnswer(h, req, out.status, out.op)

Registered(h) == IF h = "csv" THEN BOOLEAN ELSE {TRUE}

\* whether the handler takes the request as far as connectDB: the cors
\* middleware ends a preflight itself and never calls next, and the
\* CSV-import handler answers 405 to any other method than POST
ReachesConnect(h, req) ==
  req.method # "OPTIONS" /\ (h = "csv" => req.method = "POST")

\* a request reaches a serverless handler, which runs up to its first await on
\* an unsettled promise
FnInvoke(h) ==
  /\ Ready("serverless")
  /\ UNCHANGED <<deploy, now, mode>>
  /\ \E req \in Requests(h) :
       IF req.method = "OPTIONS"
       THEN /\ FnAnswer(h, req, 204, "none")
            /\ UNCHANGED <<store, nextId, cached, attempts, inflight, events>>
       ELSE IF ~ReachesConnect(h, req)
       THEN /\ FnAnswer(h, req, 405, "none")
            /\ UNCHANGED <<store, nextId, cached, attempts, inflight, events>>
       ELSE IF cached.conn
       THEN /\ \E reg \in Registered(h) : FnBody(h, req, reg)
            /\ UNCHANGED <<cached, attempts, inflight>>
       ELSE IF needsConnect(cached, attempts)
       THEN /\ CanSuspend
            /\ attempts' = Append(attempts, "pending")
            /\ cached' = [cached EXCEPT !.promise = Len(attempts) + 1]
            /\ inflight' = Suspend(inflight,
                                   Frame(h, "connect", Len(attempts) + 1, 0, 0))
            /\ events' = events + 1
            /\ resp' = NoResp
            /\ UNCHANGED <<store, nextId>>
       ELSE IF attempts[cached.promise] = "pending"
       THEN /\ CanSuspend
            /\ inflight' = Suspend(inflight,
                                   Frame(h, "connect", cached.promise, 0, 0))
            /\ events' = events + 1
            /\ resp' = NoResp
            /\ UNCHANGED <<store, nextId, cached, attempts>>
       ELSE IF attempts[cached.promise] = "fulfilled"
       THEN /\ cached' = [cached EXCEPT !.conn = TRUE]
            /\ \E reg \in Registered(h) : FnBody(h, req, reg)
            /\ UNCHANGED <<attempts, inflight>>
       ELSE /\ FnAnswer(h, req, 500, "connect")
            /\ UNCHANGED <<store, nextId, cached, attempts, inflight, events>>

\* mongoose.connect succeeds
ConnectResolve ==
  /\ Ready("serverless")
  /\ \E a \in DOMAIN attempts :
       /\ attempts[a] = "pending"
       /\ attempts' = [attempts EXCEPT ![a] = "fulfilled"]
  /\ resp' = NoResp
  /\ UNCHANGED <<deploy, store, nextId, now, mode, cached, inflight, events>>

\* mongoose.connect fails
ConnectReject ==
  /\ Ready("serverless")
  /\ \E a \in DOMAIN attempts :
       /\ attempts[a] = "pending"
       /\ attempts' = [attempts EXCEPT ![a] = "rejected"]
  /\ resp' = NoResp
  /\ UNCHANGED <<deploy, store, nextId, now, mode, cached, inflight, events>>

\* cached.conn = await cached.promise settles in a suspended invocation
FnResume(f) ==
  /\ Ready("serverless")
  /\ f.pc = "connect"
  /\ attempts[f.awaits] # "pending"
  /\ \E req \in {r \in Requests(f.h) : ReachesConnect(f.h, r)} :
       IF attempts[f.awaits] = "fulfilled"
       THEN /\ cached' = [cached EXCEPT !.conn = TRUE]
            /\ \E reg \in Registered(f.h) : FnBody(f.h, req, reg)
       ELSE /\ FnAnswer(f.h, req, 500, "connect")
            /\ UNCHANGED <<store, nextId, cached, events>>
  /\ inflight' = Drop(inflight, f)
  /\ UNCHANGED <<deploy, now, mode, attempts>>

\* res.json() has written the response and the request is over
Sent ==
  /\ resp # NoResp
  /\ resp' = NoResp
  /\ UNCHANGED <<deploy, store, nextId, now, mode, cached, attempts, inflight, events>>

(* --------------------------- specification ----------------------------- *)

Init ==
  /\ deploy \in {"server", "serverless"}
  /\ store = [i \in {} |-> EmptyObj]
  /\ nextId = 1
  /\ now = 1
  /\ mode \in {"development", "production"}
  /\ cached = [conn |-> FALSE, promise |-> 0]
  /\ attempts = <<>>
  /\ inflight = EmptyBag
  /\ events = 0
  /\ resp = NoResp

Next ==
  \/ SrvGetForm
  \/ SrvPostForm
  \/ SrvPostCsv
  \/ SrvPutForm
  \/ SrvDeleteForm
  \/ SrvAnalytics
  \/ \E f \in DOMAIN inflight : AnalyticsTotal(f)
  \/ \E f \in DOMAIN inflight : AnalyticsForm(f)
  \/ \E f \in DOMAIN inflight : AnalyticsCsv(f)
  \/ FnInvoke("forms")
  \/ FnInvoke("csv")
  \/ ConnectResolve
  \/ ConnectReject
  \/ \E f \in DOMAIN inflight : FnResume(f)
  \/ Tick
  \/ Sent

Spec == Init /\ [][Next]_vars

(* ------------------------------- claims -------------------------------- *)

\* C1: within one process mongoose.connect is started at most once: every
\* invocation suspended in connectDB awaits that one attempt, whose promise
\* stays in cached.promise, and cached.conn is set only once it has fulfilled.
C1_ConnectOnce ==
  /\ Len(attempts) <= 1
  /\ cached.promise = Len(attempts)
  /\ \A f \in DOMAIN inflight : f.pc = "connect" => f.awaits = cached.promise
  /\ cached.conn => (Len(attempts) = 1 /\ attempts[1] = "fulfilled")

\* two invocations were suspended on the one attempt; it fulfilled, one of
\* them has just imported rows and the other is still suspended
C1_Witness ==
  /\ cached.conn
  /\ resp.op = "bulk" /\ resp.status = 201
  /\ \E f \in DOMAIN inflight : f.pc = "connect"

\* C2: every successful GET /analytics response has
\* totalSubmissions = submissionsBySource.form + submissionsBySource.csv.
C2_AnalyticsTotals ==
  (resp.route = "GET /analytics" /\ resp.status = 200)
    => resp.data.total = resp.data.form + resp.data.csv

\* C3: a GET, PUT or DELETE of one submission whose id is malformed, or
\* well-formed but matching no record, is answered 404 and leaves the store
\* unchanged (stated for bodies that pass validation, and for handlers that
\* got past connectDB).
C3_BadIdIsNotFound ==
  [][(/\ resp'.op \in {"get", "update", "delete"}
      /\ ObjValid(resp'.body)
      /\ \/ resp'.id.k = "malformed"
         \/ (resp'.id.k = "oid" /\ resp'.id.n \notin DOMAIN store))
     => (resp'.status = 404 /\ store' = store)]_vars

\* a request whose input is bad: PUT or DELETE without an id, POST /forms/csv
\* whose csvData is missing or no array, POST /forms whose csvData is no array
BadInput(r) ==
  \/ r.route \in {"PUT /forms/{id}", "DELETE /forms/{id}"} /\ r.id.k = "none"
  \/ r.route = "POST /forms/csv" /\ ~IsArray(r.body["csvData"])
  \/ r.route = "POST /forms" /\ IsDef(r.body["csvData"]) /\ ~IsArray(r.body["csvData"])

\* C4: every request with bad input is answered 400 and leaves the store
\* unchanged (stated for handlers that got past connectDB).
C4_BadInputIs400 ==
  [][(BadInput(resp') /\ resp'.op # "connect")
     => (resp'.status = 400 /\ store' = store)]_vars

\* the step imported the N rows of the request: N new records, the i-th with
\* source "csv" and csvData equal to the i-th row, the others as they were
ImportedRows(rows) ==
  /\ nextId' = nextId + Len(rows)
  /\ DOMAIN store' = DOMAIN store \cup (nextId..(nextId + Len(rows) - 1))
  /\ \A i \in DOMAIN store : store'[i] = store[i]
  /\ \A i \in 1..Len(rows) :
       /\ store'[nextId + i - 1]["source"] = Str("csv")
       /\ store'[nextId + i - 1]["csvData"] = Obj(rows[i])

UpdatedOne(r) ==
  r.op = "update" /\ r.status = 200 /\ Cardinality(Names(r.body)) = 1

TheField(r) == CHOOSE k \in Names(r.body) : TRUE

\* C6 as stated: a successful update with body {field: v} changes only that
\* field, which a findById straight after returns as v.
C6_UpdateOnlyField ==
  [][UpdatedOne(resp') =>
       LET id == resp'.id.n
           f == TheField(resp')
       IN /\ DOMAIN store' = DOMAIN store
          /\ \A j \in DOMAIN store \ {id} : store'[j] = store[j]
          /\ \A k \in AllKeys \ {f} : store'[id][k] = store[id][k]
          /\ findById(store', nextId', resp'.id).kind = "doc"
          /\ store'[id][f] = resp'.body[f]]_vars

\* C6 amended: it changes that field and updatedAt only, and the field reads
\* as v cast to the type the schema declares for it.
C6_UpdateFieldAndStamp ==
  [][UpdatedOne(resp') =>
       LET id == resp'.id.n
           f == TheField(resp')
       IN /\ DOMAIN store' = DOMAIN store
          /\ \A j \in DOMAIN store \ {id} : store'[j] = store[j]
          /\ \A k \in AllKeys \ {f, "updatedAt"} : store'[id][k] = store[id][k]
          /\ findById(store', nextId', resp'.id).kind = "doc"
          /\ store'[id][f] = CastPath(f, resp'.body[f])]_vars

\* a record created at an earlier time than now has just been updated by
\* {name: 5}, next to another record
C6_Witness ==
  /\ UpdatedOne(resp)
  /\ IsDef(resp.body["name"])
  /\ Cardinality(DOMAIN store) = 2
  /\ store[resp.id.n]["updatedAt"] = Date(now)
  /\ \E j \in DOMAIN store : store[j]["updatedAt"].v < now

\* csvData is present on exactly the records whose source is "csv"
CsvConvention(st) ==
  \A i \in DOMAIN st : IsDef(st[i]["csvData"]) <=> st[i]["source"] = Str("csv")

\* C7 as stated: in every reachable state each record has csvData present if
\* and only if its source is "csv".
C7_CsvDataIffCsv == CsvConvention(store)

\* a single create or an update whose body names csvData or source
NamesConvention(r) ==
  /\ r.op \in {"create", "update"}
  /\ IsDef(r.body["csvData"]) \/ IsDef(r.body["source"])

\* C7 amended: every request keeps that convention, the single creates and
\* updates whose body names csvData or source excepted.
C7_ConventionKept ==
  [][(CsvConvention(store) /\ ~NamesConvention(resp')) => CsvConvention(store')]_vars

\* a bulk import has just added csv records to a store that holds a form record
C7_Witness ==
  /\ resp.op = "bulk" /\ resp.status = 201
  /\ CsvConvention(store)
  /\ \E i \in DOMAIN store : store[i]["source"] = Str("form")
  /\ \E i \in DOMAIN store : store[i]["source"] = Str("csv")

\* C8: the submittedAt of a record never changes while the record exists.
C8_SubmittedAtImmutable ==
  [][\A i \in DOMAIN store \cap DOMAIN store' :
       store'[i]["submittedAt"] = store[i]["submittedAt"]]_vars

\* C9: a 500 response carries the failure's message only in development mode,
\* and a generic message in any other mode.
C9_ErrorDetail ==
  /\ (resp.status = 500 /\ resp.error = "detail") => mode = "development"
  /\ (resp.status = 500 /\ mode # "development") => resp.error = "generic"

\* the first connection attempt has failed
FirstAttemptFailed == Len(attempts) >= 1 /\ attempts[1] = "rejected"

\* C10 as stated: once the first attempt has failed, no new attempt is ever
\* started and every invocation of the forms handler and of the CSV-import
\* handler is answered 500 without a store operation.
C10_FailedForGood ==
  [][(FirstAttemptFailed' /\ resp'.h \in {"forms", "csv"})
     => /\ attempts' = attempts
        /\ cached' = cached /\ ~cached.conn /\ cached.promise = 1
        /\ resp'.status = 500 /\ resp'.op = "connect"
        /\ store' = store]_vars

\* C10 amended: the same of every invocation that reaches connectDB: all but
\* the preflights the cors middleware answers and the requests the CSV-import
\* handler refuses with 405 for their method.
C10_FailedForGoodPastCors ==
  [][(/\ FirstAttemptFailed'
      /\ resp'.h \in {"forms", "csv"}
      /\ resp'.route # "OPTIONS"
      /\ resp'.h = "csv" => resp'.route = "POST /forms/csv")
     => /\ attempts' = attempts
        /\ cached' = cached /\ ~cached.conn /\ cached.promise = 1
        /\ resp'.status = 500 /\ resp'.op = "connect"
        /\ store' = store]_vars

\* after the failure a CSV import has been answered 500
C10_Witness ==
  /\ FirstAttemptFailed
  /\ resp.h = "csv" /\ resp.route = "POST /forms/csv" /\ resp.status = 500
  /\ IsArray(resp.body["csvData"])

====
